---- MODULE Spec2Model ----
(***************************************************************************)
(* Model of lumina-disk-manager's device registry (manager.cpp): the       *)
(* Manager that tracks UDisks2 block devices and the Device objects it     *)
(* owns.  Every handler of the Qt event loop runs to completion, so each   *)
(* slot is one atomic action.  The bus, the UDisks2 service and the        *)
(* devices plugged into the machine are the environment.                   *)
(***************************************************************************)
EXTENDS Integers, Sequences, FiniteSets, TLC

\* Number of Device objects the Manager may construct in one behaviour.
MaxDevices == 3

-----------------------------------------------------------------------------
(* Object paths.  A path is the sequence of its segments.                  *)

DBUS_PATH == <<"org", "freedesktop", "UDisks2">>

JobsPrefix == DBUS_PATH \o <<"jobs">>

\* The block devices of the machine, in the order the service lists them.
BlockDevices == << DBUS_PATH \o <<"block_devices", "sda1">>,
                   DBUS_PATH \o <<"block_devices", "sr0">> >>

DevicePaths == { BlockDevices[i] : i \in 1..Len(BlockDevices) }

JobPaths == { DBUS_PATH \o <<"jobs", "1">> }

AllPaths == DevicePaths \cup JobPaths

MountPoints == {"", "/media/disk"}

\* QString::startsWith
StartsWith(s, prefix) ==
    /\ Len(s) >= Len(prefix)
    /\ SubSeq(s, 1, Len(prefix)) = prefix

-----------------------------------------------------------------------------
VARIABLES
    busConnected,   \* QDBusConnection::systemBus().isConnected()
    serviceValid,   \* the UDisks2 service owns its bus name
    present,        \* the block devices the service enumerates
    svc,            \* the attributes the service reports for each device
    devices,        \* Manager::devices, path -> Device
    dbus,           \* Manager::dbus, "NULL" or "QDBusInterface"
    subscribed,     \* the device-added/removed signals are connected
    nextId,         \* identity of the next Device to be constructed
    crashed,        \* the process has been terminated
    op,             \* the handler that ran last: [name, path]
    pre,            \* Manager::devices when that handler started
    emitted,        \* the signals the Manager emitted in that handler
    signals,        \* the signals the Devices emitted in that handler
    calls           \* the bus and adapter requests made in that handler

envVars == <<busConnected, serviceValid, present, svc>>
progVars == <<devices, dbus, subscribed, nextId, crashed>>
logVars == <<op, pre, emitted, signals, calls>>
vars == <<busConnected, serviceValid, present, svc, devices, dbus, subscribed,
          nextId, crashed, op, pre, emitted, signals, calls>>

-----------------------------------------------------------------------------
(* The environment as the code reads it.                                   *)

\* What the service reports for a device it does not know; these are also
\* the values of the member initialisers of Device::Device.
NoAttributes ==
    [drive |-> "", name |-> "", isRemovable |-> FALSE, mountpoint |-> "",
     filesystem |-> "", isOptical |-> FALSE, hasMedia |-> FALSE,
     opticalDataTracks |-> 0, opticalAudioTracks |-> 0, isBlankDisc |-> FALSE,
     hasPartition |-> FALSE]

\* The reports of the registry's behaviours: mount point and media vary.
Attributes ==
    { [NoAttributes EXCEPT !.mountpoint = mp, !.hasMedia = h] :
        mp \in MountPoints, h \in BOOLEAN }

\* QDBusInterface::isValid of an interface on the UDisks2 service.
IsValid == busConnected /\ serviceValid

\* uDisks2::getDevices
GetDevices == SelectSeq(BlockDevices, LAMBDA p : p \in present)

\* The uDisks2 getters of Device::updateDeviceProperties; m.svc is what the
\* service reports at that point of the handler.  The getters keyed by the
\* drive read the report of the device's own drive.
GetDrivePath(m, path) == m.svc[path].drive

GetDeviceName(m, path) == m.svc[path].name

IsRemovable(m, path) == m.svc[path].isRemovable

GetMountPoint(m, path) == m.svc[path].mountpoint

GetFileSystem(m, path) == m.svc[path].filesystem

IsOptical(m, path) == m.svc[path].isOptical

HasMedia(m, path) == m.svc[path].hasMedia

OpticalDataTracks(m, path) == m.svc[path].opticalDataTracks

OpticalAudioTracks(m, path) == m.svc[path].opticalAudioTracks

OpticalMediaIsBlank(m, path) == m.svc[path].isBlankDisc

HasPartition(m, path) == m.svc[path].hasPartition

\* QStringList::contains
Contains(list, x) == \E i \in 1..Len(list) : list[i] = x

-----------------------------------------------------------------------------
(* Device                                                                  *)

\* The member initialisers of Device::Device.
InitialDevice(path, id) ==
    [path |-> path, id |-> id, connected |-> FALSE, dev |-> "",
     drive |-> "", name |-> "", isRemovable |-> FALSE, mountpoint |-> "",
     filesystem |-> "", isOptical |-> FALSE, hasMedia |-> FALSE,
     opticalDataTracks |-> 0, opticalAudioTracks |-> 0, isBlankDisc |-> FALSE,
     hasPartition |-> FALSE]

\* Every Device signal is connected twice, so the Manager's slot runs twice.
ForwardTwice(dev, sig) ==
    IF ~dev.connected THEN <<>>
    ELSE IF sig[1] = "mediaChanged"
         THEN << <<"mediaChanged", sig[2], sig[3]>>, <<"mediaChanged", sig[2], sig[3]>> >>
    ELSE IF sig[1] = "mountpointChanged"
         THEN << <<"mountpointChanged", sig[2], sig[3]>>,
                 <<"mountpointChanged", sig[2], sig[3]>> >>
    ELSE IF sig[1] = "errorMessage"
         THEN << <<"deviceErrorMessage", sig[2], sig[3]>>,
                 <<"deviceErrorMessage", sig[2], sig[3]>> >>
    ELSE <<>>

\* A Device signal reaches the Manager's slot only once it is connected; the
\* Manager re-emits mediaChanged, mountpointChanged and errorMessage.
Forward(dev, sig) ==
    IF ~dev.connected THEN <<>>
    ELSE IF sig[1] = "mediaChanged" THEN << <<"mediaChanged", sig[2], sig[3]>> >>
    ELSE IF sig[1] = "mountpointChanged" THEN << <<"mountpointChanged", sig[2], sig[3]>> >>
    ELSE IF sig[1] = "errorMessage" THEN << <<"deviceErrorMessage", sig[2], sig[3]>> >>
    ELSE <<>>

RECURSIVE ForwardAll(_, _)
ForwardAll(dev, sigs) ==
    IF sigs = <<>> THEN <<>>
    ELSE Forward(dev, Head(sigs)) \o ForwardAll(dev, Tail(sigs))

\* Device::updateDeviceProperties comparing the filesystem where it should
\* compare the name.
UpdateDevicePropertiesWatchesFilesystem(m, dev) ==
    IF ~IsValid THEN [m EXCEPT !.dev = dev]
    ELSE LET new == [dev EXCEPT
                       !.drive = GetDrivePath(m, dev.path),
                       !.name = GetDeviceName(m, dev.path),
                       !.dev = IF dev.path = <<>> THEN "" ELSE dev.path[Len(dev.path)],
                       !.isRemovable = IsRemovable(m, dev.path),
                       !.mountpoint = GetMountPoint(m, dev.path),
                       !.filesystem = GetFileSystem(m, dev.path),
                       !.isOptical = IsOptical(m, dev.path),
                       !.hasMedia = HasMedia(m, dev.path),
                       !.opticalDataTracks = OpticalDataTracks(m, dev.path),
                       !.opticalAudioTracks = OpticalAudioTracks(m, dev.path),
                       !.isBlankDisc = OpticalMediaIsBlank(m, dev.path),
                       !.hasPartition = HasPartition(m, dev.path)]
             sigs == (IF dev.hasMedia # new.hasMedia
                      THEN << <<"mediaChanged", new.path, new.hasMedia>> >>
                      ELSE <<>>)
                     \o
                     (IF dev.mountpoint # new.mountpoint
                      THEN << <<"mountpointChanged", new.path, new.mountpoint>> >>
                      ELSE <<>>)
                     \o
                     (IF dev.filesystem # new.filesystem
                      THEN << <<"nameChanged", new.path, new.name>> >>
                      ELSE <<>>)
         IN  [m EXCEPT !.dev = new,
                       !.calls = Append(@, <<"properties", dev.path>>),
                       !.signals = @ \o sigs,
                       !.emitted = @ \o ForwardAll(dev, sigs)]

\* Device::updateDeviceProperties on Device dev within handler state m.
UpdateDeviceProperties(m, dev) ==
    IF ~IsValid THEN [m EXCEPT !.dev = dev]
    ELSE LET hadMedia == dev.hasMedia
             lastMountpoint == dev.mountpoint
             lastName == dev.name
             new == [dev EXCEPT
                       !.drive = GetDrivePath(m, dev.path),
                       !.name = GetDeviceName(m, dev.path),
                       !.dev = IF dev.path = <<>> THEN "" ELSE dev.path[Len(dev.path)],
                       !.isRemovable = IsRemovable(m, dev.path),
                       !.mountpoint = GetMountPoint(m, dev.path),
                       !.filesystem = GetFileSystem(m, dev.path),
                       !.isOptical = IsOptical(m, dev.path),
                       !.hasMedia = HasMedia(m, dev.path),
                       !.opticalDataTracks = OpticalDataTracks(m, dev.path),
                       !.opticalAudioTracks = OpticalAudioTracks(m, dev.path),
                       !.isBlankDisc = OpticalMediaIsBlank(m, dev.path),
                       !.hasPartition = HasPartition(m, dev.path)]
             sigs == (IF hadMedia # new.hasMedia
                      THEN << <<"mediaChanged", new.path, new.hasMedia>> >>
                      ELSE <<>>)
                     \o
                     (IF lastMountpoint # new.mountpoint
                      THEN << <<"mountpointChanged", new.path, new.mountpoint>> >>
                      ELSE <<>>)
                     \o
                     (IF lastName # new.name
                      THEN << <<"nameChanged", new.path, new.name>> >>
                      ELSE <<>>)
         IN  [m EXCEPT !.dev = new,
                       !.calls = Append(@, <<"properties", dev.path>>),
                       !.signals = @ \o sigs,
                       !.emitted = @ \o ForwardAll(dev, sigs)]

\* Device::Device with the Manager's slots connected before the refresh.
NewDeviceConnectedFirst(m, path) ==
    LET m1 == [m EXCEPT !.nextId = @ + 1,
                        !.calls = @ \o << <<"new", path, m.nextId>>,
                                          <<"connect", "PropertiesChanged", path>> >>]
    IN  UpdateDeviceProperties(m1, [InitialDevice(path, m.nextId)
                                      EXCEPT !.connected = TRUE])

\* Device::Device: the new Device is left in m.dev.
NewDevice(m, path) ==
    LET m1 == [m EXCEPT !.nextId = @ + 1,
                        !.calls = @ \o << <<"new", path, m.nextId>>,
                                          <<"connect", "PropertiesChanged", path>> >>]
    IN  UpdateDeviceProperties(m1, InitialDevice(path, m.nextId))

\* A Device emits sig: the Manager's slot runs if the Device is connected.
Emit(m, dev, sig) ==
    [m EXCEPT !.signals = Append(@, sig),
              !.emitted = @ \o Forward(dev, sig)]

\* The error strings the adapter returns; "" is success.
Replies == {"", "Error"}

\* Device::eject without the test of the interface.
EjectUnchecked(m, dev, ans) ==
    LET m1 == [m EXCEPT !.calls = Append(@, <<"ejectDevice", dev.drive>>),
                        !.input = Append(@, ans),
                        !.svc = [@ EXCEPT ![dev.path] = ans.after]]
        m2 == UpdateDeviceProperties(m1, dev)
    IN  IF ans.reply # ""
        THEN Emit(m2, m2.dev, <<"errorMessage", dev.path, ans.reply>>)
        ELSE m2

\* Device::eject on Device dev; ans is the adapter's reply and what the
\* service reports after the request, kept in m.input.  The Device is left
\* in m.dev.
Eject(m, dev, ans) ==
    IF ~IsValid THEN [m EXCEPT !.dev = dev]
    ELSE LET m1 == [m EXCEPT !.calls = Append(@, <<"ejectDevice", dev.drive>>),
                             !.input = Append(@, ans),
                             !.svc = [@ EXCEPT ![dev.path] = ans.after]]
             m2 == UpdateDeviceProperties(m1, dev)
             reply == IF ans.reply = "" THEN <<"Failed to eject", m2.dev.name>>
                      ELSE ans.reply
         IN  IF ans.reply # ""
             THEN Emit(m2, m2.dev, <<"errorMessage", dev.path, reply>>)
             ELSE m2

\* Device::mount without the test of the cached mount point.
MountIgnoresMountpoint(m, dev, ans) ==
    IF ~IsValid THEN [m EXCEPT !.dev = dev]
    ELSE LET m1 == [m EXCEPT !.calls = Append(@, <<"mountDevice", dev.path>>),
                             !.input = Append(@, ans),
                             !.svc = [@ EXCEPT ![dev.path] = ans.after],
                             !.dev = dev]
         IN  IF ans.reply # ""
             THEN Emit(m1, dev, <<"errorMessage", dev.path, ans.reply>>)
             ELSE UpdateDeviceProperties(m1, dev)

\* Device::mount refreshing before it looks at the reply.
MountRefreshesFirst(m, dev, ans) ==
    IF ~IsValid \/ dev.mountpoint # "" THEN [m EXCEPT !.dev = dev]
    ELSE LET m1 == [m EXCEPT !.calls = Append(@, <<"mountDevice", dev.path>>),
                             !.input = Append(@, ans),
                             !.svc = [@ EXCEPT ![dev.path] = ans.after]]
             m2 == UpdateDeviceProperties(m1, dev)
         IN  IF ans.reply # ""
             THEN Emit(m2, m2.dev, <<"errorMessage", dev.path, ans.reply>>)
             ELSE m2

\* Device::mount on Device dev.
Mount(m, dev, ans) ==
    IF ~IsValid \/ dev.mountpoint # "" THEN [m EXCEPT !.dev = dev]
    ELSE LET m1 == [m EXCEPT !.calls = Append(@, <<"mountDevice", dev.path>>),
                             !.input = Append(@, ans),
                             !.svc = [@ EXCEPT ![dev.path] = ans.after],
                             !.dev = dev]
         IN  IF ans.reply # ""
             THEN Emit(m1, dev, <<"errorMessage", dev.path, ans.reply>>)
             ELSE UpdateDeviceProperties(m1, dev)

\* Device::unmount ejecting whatever the kind of the device.
UnmountEjectsAlways(m, dev, ans, ejectAns) ==
    IF ~IsValid \/ dev.mountpoint = "" THEN [m EXCEPT !.dev = dev]
    ELSE LET m1 == [m EXCEPT !.calls = Append(@, <<"unmountDevice", dev.path>>),
                             !.input = Append(@, ans),
                             !.svc = [@ EXCEPT ![dev.path] = ans.after]]
             m2 == UpdateDeviceProperties(m1, dev)
             reply == IF ans.reply = "" THEN <<"Failed to umount", m2.dev.name>>
                      ELSE ans.reply
         IN  IF ans.reply # "" \/ m2.dev.mountpoint # ""
             THEN Emit(m2, m2.dev, <<"errorMessage", dev.path, reply>>)
             ELSE Eject(m2, m2.dev, ejectAns)

\* Device::unmount looking at the adapter's reply only.
UnmountTrustsReply(m, dev, ans, ejectAns) ==
    IF ~IsValid \/ dev.mountpoint = "" THEN [m EXCEPT !.dev = dev]
    ELSE LET m1 == [m EXCEPT !.calls = Append(@, <<"unmountDevice", dev.path>>),
                             !.input = Append(@, ans),
                             !.svc = [@ EXCEPT ![dev.path] = ans.after]]
             m2 == UpdateDeviceProperties(m1, dev)
         IN  IF ans.reply # ""
             THEN Emit(m2, m2.dev, <<"errorMessage", dev.path, ans.reply>>)
             ELSE IF m2.dev.isOptical /\ m2.dev.mountpoint = ""
                  THEN Eject(m2, m2.dev, ejectAns)
             ELSE m2

\* Device::unmount on Device dev; ejectAns answers the eject request, if one
\* is made.
Unmount(m, dev, ans, ejectAns) ==
    IF ~IsValid \/ dev.mountpoint = "" THEN [m EXCEPT !.dev = dev]
    ELSE LET m1 == [m EXCEPT !.calls = Append(@, <<"unmountDevice", dev.path>>),
                             !.input = Append(@, ans),
                             !.svc = [@ EXCEPT ![dev.path] = ans.after]]
             m2 == UpdateDeviceProperties(m1, dev)
             reply == IF ans.reply = "" THEN <<"Failed to umount", m2.dev.name>>
                      ELSE ans.reply
         IN  IF ans.reply # "" \/ m2.dev.mountpoint # ""
             THEN Emit(m2, m2.dev, <<"errorMessage", dev.path, reply>>)
             ELSE IF m2.dev.isOptical THEN Eject(m2, m2.dev, ejectAns)
             ELSE m2

-----------------------------------------------------------------------------
(* Manager                                                                 *)

NoDevice == InitialDevice(<<>>, 0)

\* QMap::take
Take(map, key) == [k \in (DOMAIN map) \ {key} |-> map[k]]

\* Manager::scanDevices always constructs a Device for the path, tracked or not.
ScanStepRebuilds(m, foundDevicePath) ==
    LET m1 == NewDevice(m, foundDevicePath)
        newDevice == [m1.dev EXCEPT !.connected = TRUE]
    IN  [m1 EXCEPT !.devices = (foundDevicePath :> newDevice) @@ @,
                   !.dev = NoDevice]

\* The body of the loop of Manager::scanDevices.
ScanStep(m, foundDevicePath) ==
    LET hasDevice == foundDevicePath \in DOMAIN m.devices
    IN  IF hasDevice THEN m
        ELSE LET m1 == NewDevice(m, foundDevicePath)
                 newDevice == [m1.dev EXCEPT !.connected = TRUE]
             IN  [m1 EXCEPT !.devices = (foundDevicePath :> newDevice) @@ @,
                            !.dev = NoDevice]

RECURSIVE ScanLoop(_, _, _)
ScanLoop(m, foundDevices, i) ==
    IF i > Len(foundDevices) THEN m
    ELSE ScanLoop(ScanStep(m, foundDevices[i]), foundDevices, i + 1)

\* Manager::scanDevices
ScanDevices(m) ==
    LET foundDevices == GetDevices
        m1 == ScanLoop([m EXCEPT !.calls = Append(@, <<"getDevices">>)],
                       foundDevices, 1)
    IN  [m1 EXCEPT !.emitted = Append(@, <<"updatedDevices">>)]

\* Manager::setupDBus
SetupDBus(m) ==
    IF busConnected
    THEN LET m1 == [m EXCEPT !.subscribed = TRUE,
                             !.calls = @ \o << <<"connect", "InterfacesAdded">>,
                                               <<"connect", "InterfacesRemoved">> >>,
                             !.dbus = IF @ = "NULL" THEN "QDBusInterface" ELSE @]
         IN  ScanDevices(m1)
    ELSE m

\* Manager::deviceAdded without the test of the jobs namespace.
DeviceAddedScansJobs(m, path, valid) ==
    IF ~valid THEN m
    ELSE LET m1 == ScanDevices(m)
         IN  [m1 EXCEPT !.emitted = Append(@, <<"foundNewDevice", path>>)]

\* Manager::deviceAdded announcing the path before it has enumerated.
DeviceAddedAnnouncesFirst(m, path, valid) ==
    IF ~valid THEN m
    ELSE IF StartsWith(path, JobsPrefix) THEN m
    ELSE ScanDevices([m EXCEPT !.emitted = Append(@, <<"foundNewDevice", path>>)])

\* Manager::deviceAdded; valid is what dbus->isValid() returned.
DeviceAdded(m, path, valid) ==
    IF ~valid THEN m
    ELSE IF StartsWith(path, JobsPrefix) THEN m
    ELSE LET m1 == ScanDevices(m)
         IN  [m1 EXCEPT !.emitted = Append(@, <<"foundNewDevice", path>>)]

\* Manager::deviceRemoved returning right after it has deleted the Device.
DeviceRemovedSkipsScan(m, path, valid) ==
    IF ~valid THEN m
    ELSE LET deviceExists == path \in DOMAIN m.devices
         IN  IF StartsWith(path, JobsPrefix) THEN m
             ELSE IF deviceExists
                  THEN LET m1 == [m EXCEPT !.calls = Append(@, <<"getDevices">>)]
                       IN  IF Contains(GetDevices, path) THEN m1
                           ELSE [m1 EXCEPT !.calls = Append(@, <<"delete", path,
                                                                 m.devices[path].id>>),
                                           !.devices = Take(@, path)]
                  ELSE ScanDevices(m)

\* Manager::deviceRemoved that never deletes the tracked Device.
DeviceRemovedKeepsDevice(m, path, valid) ==
    IF ~valid THEN m
    ELSE LET deviceExists == path \in DOMAIN m.devices
         IN  IF StartsWith(path, JobsPrefix) THEN m
             ELSE IF deviceExists
                  THEN LET m1 == [m EXCEPT !.calls = Append(@, <<"getDevices">>)]
                       IN  IF Contains(GetDevices, path) THEN m1
                           ELSE ScanDevices(m1)
                  ELSE ScanDevices(m)

\* Manager::deviceRemoved dropping the whole registry when the path is not
\* tracked, before it enumerates again.
DeviceRemovedClears(m, path, valid) ==
    IF ~valid THEN m
    ELSE LET deviceExists == path \in DOMAIN m.devices
         IN  IF StartsWith(path, JobsPrefix) THEN m
             ELSE IF deviceExists
                  THEN LET m1 == [m EXCEPT !.calls = Append(@, <<"getDevices">>)]
                       IN  IF Contains(GetDevices, path) THEN m1
                           ELSE ScanDevices(
                                  [m1 EXCEPT !.calls = Append(@, <<"delete", path,
                                                                   m.devices[path].id>>),
                                             !.devices = Take(@, path)])
                  ELSE ScanDevices([m EXCEPT !.devices = <<>>])

\* Manager::deviceRemoved; valid is what dbus->isValid() returned.
DeviceRemoved(m, path, valid) ==
    IF ~valid THEN m
    ELSE LET deviceExists == path \in DOMAIN m.devices
         IN  IF StartsWith(path, JobsPrefix) THEN m
             ELSE IF deviceExists
                  THEN LET m1 == [m EXCEPT !.calls = Append(@, <<"getDevices">>)]
                       IN  IF Contains(GetDevices, path) THEN m1
                           ELSE ScanDevices(
                                  [m1 EXCEPT !.calls = Append(@, <<"delete", path,
                                                                   m.devices[path].id>>),
                                             !.devices = Take(@, path)])
                  ELSE ScanDevices(m)

\* Manager::checkUDisks; valid is what dbus->isValid() returned.
CheckUDisks(m, valid) ==
    IF ~busConnected THEN SetupDBus(m)
    ELSE IF ~valid THEN ScanDevices(m)
    ELSE m

\* Device::handlePropertiesChanged of the tracked Device at path.
HandlePropertiesChanged(m, path) ==
    LET m1 == UpdateDeviceProperties(m, m.devices[path])
    IN  [m1 EXCEPT !.devices = [@ EXCEPT ![path] = m1.dev], !.dev = NoDevice]

-----------------------------------------------------------------------------
(* The state machine.                                                      *)

\* The handler state a slot starts from.
Entry ==
    [devices |-> devices, dbus |-> dbus, subscribed |-> subscribed,
     nextId |-> nextId, dev |-> NoDevice, svc |-> svc, input |-> <<>>,
     emitted |-> <<>>, signals |-> <<>>, calls |-> <<>>]

\* What dbus->isValid() may return: calling it through a null pointer is
\* undefined, so the call may end the process or return either value.
IsValidOutcomes(handle) ==
    IF handle = "NULL" THEN {"crash", "true", "false"}
    ELSE {IF IsValid THEN "true" ELSE "false"}

\* The slot returns leaving the Manager as in m.
Return(name, path, m) ==
    /\ m.nextId <= MaxDevices + 1
    /\ devices' = m.devices
    /\ dbus' = m.dbus
    /\ subscribed' = m.subscribed
    /\ nextId' = m.nextId
    /\ crashed' = FALSE
    /\ op' = [name |-> name, path |-> path, input |-> m.input]
    /\ pre' = devices
    /\ emitted' = m.emitted
    /\ signals' = m.signals
    /\ calls' = m.calls
    /\ svc' = m.svc
    /\ UNCHANGED <<busConnected, serviceValid, present>>

\* The process dies inside the slot.
Crash(name, path) ==
    /\ crashed' = TRUE
    /\ op' = [name |-> name, path |-> path, input |-> <<>>]
    /\ pre' = devices
    /\ emitted' = <<>>
    /\ signals' = <<>>
    /\ calls' = <<>>
    /\ UNCHANGED <<devices, dbus, subscribed, nextId>>
    /\ UNCHANGED envVars

Init ==
    /\ busConnected \in BOOLEAN
    /\ serviceValid \in BOOLEAN
    /\ present \in SUBSET DevicePaths
    /\ svc \in [DevicePaths -> Attributes]
    /\ \A p \in DevicePaths \ present : svc[p] = NoAttributes
    /\ LET m == SetupDBus([devices |-> <<>>, dbus |-> "NULL", subscribed |-> FALSE,
                           nextId |-> 1, dev |-> NoDevice, svc |-> svc,
                           input |-> <<>>,
                           emitted |-> <<>>, signals |-> <<>>, calls |-> <<>>])
       IN  /\ devices = m.devices
           /\ dbus = m.dbus
           /\ subscribed = m.subscribed
           /\ nextId = m.nextId
           /\ emitted = m.emitted
           /\ signals = m.signals
           /\ calls = m.calls
    /\ crashed = FALSE
    /\ op = [name |-> "Manager", path |-> <<>>, input |-> <<>>]
    /\ pre = <<>>

\* The device-added signal is delivered with object path obj.
DeviceAddedSignal(obj) ==
    /\ ~crashed /\ subscribed /\ busConnected
    /\ \E r \in IsValidOutcomes(dbus) :
          IF r = "crash" THEN Crash("deviceAdded", obj)
          ELSE Return("deviceAdded", obj, DeviceAdded(Entry, obj, r = "true"))

\* The device-removed signal is delivered with object path obj.
DeviceRemovedSignal(obj) ==
    /\ ~crashed /\ subscribed /\ busConnected
    /\ \E r \in IsValidOutcomes(dbus) :
          IF r = "crash" THEN Crash("deviceRemoved", obj)
          ELSE Return("deviceRemoved", obj, DeviceRemoved(Entry, obj, r = "true"))

\* The 60 second timer fires.
TimerTick ==
    /\ ~crashed
    /\ IF ~busConnected
       THEN Return("checkUDisks", <<>>, CheckUDisks(Entry, FALSE))
       ELSE \E r \in IsValidOutcomes(dbus) :
               IF r = "crash" THEN Crash("checkUDisks", <<>>)
               ELSE Return("checkUDisks", <<>>, CheckUDisks(Entry, r = "true"))

\* The PropertiesChanged signal of a tracked Device is delivered.
PropertiesChangedSignal(path) ==
    /\ ~crashed /\ busConnected
    /\ path \in DOMAIN devices
    /\ Return("handlePropertiesChanged", path, HandlePropertiesChanged(Entry, path))

\* A step of the environment: no handler runs.
Environment ==
    /\ ~crashed
    /\ op' = [name |-> "environment", path |-> <<>>, input |-> <<>>]
    /\ pre' = devices
    /\ emitted' = <<>>
    /\ signals' = <<>>
    /\ calls' = <<>>
    /\ UNCHANGED progVars

BusChanges ==
    /\ busConnected' = ~busConnected
    /\ UNCHANGED <<serviceValid, present, svc>>
    /\ Environment

ServiceChanges ==
    /\ serviceValid' = ~serviceValid
    /\ UNCHANGED <<busConnected, present, svc>>
    /\ Environment

Plug(path) ==
    /\ path \notin present
    /\ present' = present \cup {path}
    /\ \E a \in Attributes : svc' = [svc EXCEPT ![path] = a]
    /\ UNCHANGED <<busConnected, serviceValid>>
    /\ Environment

Unplug(path) ==
    /\ path \in present
    /\ present' = present \ {path}
    /\ svc' = [svc EXCEPT ![path] = NoAttributes]
    /\ UNCHANGED <<busConnected, serviceValid>>
    /\ Environment

AttributesChange(path) ==
    /\ path \in present
    /\ \E a \in Attributes \ {svc[path]} : svc' = [svc EXCEPT ![path] = a]
    /\ UNCHANGED <<busConnected, serviceValid, present>>
    /\ Environment

Next ==
    \/ \E obj \in AllPaths : DeviceAddedSignal(obj)
    \/ \E obj \in AllPaths : DeviceRemovedSignal(obj)
    \/ TimerTick
    \/ \E path \in DevicePaths : PropertiesChangedSignal(path)
    \/ BusChanges
    \/ ServiceChanges
    \/ \E path \in DevicePaths : Plug(path)
    \/ \E path \in DevicePaths : Unplug(path)
    \/ \E path \in DevicePaths : AttributesChange(path)

Spec == Init /\ [][Next]_vars

\* The timer keeps firing while the process lives.
FairSpec == Spec /\ WF_vars(TimerTick)

-----------------------------------------------------------------------------
(* The behaviours of one Device: every attribute varies, and the user       *)
(* interface calls the Device's mount, unmount and eject slots.            *)

\* The device whose slots are called.
OpticalDevices == { BlockDevices[Len(BlockDevices)] }

UsbStick ==
    [NoAttributes EXCEPT !.drive = "drives/usb", !.name = "USB", !.isRemovable = TRUE,
                         !.filesystem = "vfat", !.hasMedia = TRUE,
                         !.hasPartition = TRUE]

Dvd ==
    [NoAttributes EXCEPT !.drive = "drives/dvd", !.name = "DVD", !.isRemovable = TRUE,
                         !.filesystem = "udf", !.isOptical = TRUE, !.hasMedia = TRUE,
                         !.opticalDataTracks = 1]

\* What the service may report for a device.
Reports ==
    { NoAttributes,
      UsbStick,
      [UsbStick EXCEPT !.mountpoint = "/media/disk"],
      [UsbStick EXCEPT !.mountpoint = "/media/disk", !.filesystem = "ext4",
                       !.hasPartition = FALSE, !.isRemovable = FALSE],
      [UsbStick EXCEPT !.mountpoint = "/media/disk", !.name = "DISK"],
      Dvd,
      [Dvd EXCEPT !.mountpoint = "/media/disk"],
      [Dvd EXCEPT !.opticalDataTracks = 0, !.opticalAudioTracks = 1,
                  !.isBlankDisc = TRUE, !.filesystem = ""],
      [Dvd EXCEPT !.hasMedia = FALSE, !.opticalDataTracks = 0, !.filesystem = ""] }

\* The adapter's answer to a request: its reply and the service's report
\* once the request has returned.
Answers == [reply : Replies, after : Reports]

DeviceInit ==
    /\ busConnected \in BOOLEAN
    /\ serviceValid \in BOOLEAN
    /\ present \in SUBSET OpticalDevices
    /\ svc \in [DevicePaths -> Reports]
    /\ \A p \in DevicePaths \ present : svc[p] = NoAttributes
    /\ LET m == SetupDBus([devices |-> <<>>, dbus |-> "NULL", subscribed |-> FALSE,
                           nextId |-> 1, dev |-> NoDevice, svc |-> svc,
                           input |-> <<>>,
                           emitted |-> <<>>, signals |-> <<>>, calls |-> <<>>])
       IN  /\ devices = m.devices
           /\ dbus = m.dbus
           /\ subscribed = m.subscribed
           /\ nextId = m.nextId
           /\ emitted = m.emitted
           /\ signals = m.signals
           /\ calls = m.calls
    /\ crashed = FALSE
    /\ op = [name |-> "Manager", path |-> <<>>, input |-> <<>>]
    /\ pre = <<>>

\* The slot of a tracked Device has run and left the Device in m.dev.
Store(m, path) ==
    [m EXCEPT !.devices = [@ EXCEPT ![path] = m.dev], !.dev = NoDevice]

\* The user interface calls Device::mount of a tracked Device.
MountCall(path) ==
    /\ ~crashed
    /\ path \in DOMAIN devices
    /\ \E ans \in Answers :
          Return("mount", path, Store(Mount(Entry, devices[path], ans), path))

\* The user interface calls Device::unmount of a tracked Device.
UnmountCall(path) ==
    /\ ~crashed
    /\ path \in DOMAIN devices
    /\ \E ans \in Answers :
          \* the answer to the eject request is drawn only if one is made
          LET first == CHOOSE a \in Answers : TRUE
              ejects == Len(Unmount(Entry, devices[path], ans, first).input) > 1
          IN  \E ejectAns \in (IF ejects THEN Answers ELSE {first}) :
                 Return("unmount", path,
                        Store(Unmount(Entry, devices[path], ans, ejectAns), path))

\* The user interface calls Device::eject of a tracked Device.
EjectCall(path) ==
    /\ ~crashed
    /\ path \in DOMAIN devices
    /\ \E ans \in Answers :
          Return("eject", path, Store(Eject(Entry, devices[path], ans), path))

DevicePlug(path) ==
    /\ path \notin present
    /\ present' = present \cup {path}
    /\ \E a \in Reports : svc' = [svc EXCEPT ![path] = a]
    /\ UNCHANGED <<busConnected, serviceValid>>
    /\ Environment

DeviceReportChanges(path) ==
    /\ \E a \in Reports \ {svc[path]} : svc' = [svc EXCEPT ![path] = a]
    /\ UNCHANGED <<busConnected, serviceValid, present>>
    /\ Environment

DeviceNext ==
    \/ \E path \in OpticalDevices : MountCall(path)
    \/ \E path \in OpticalDevices : UnmountCall(path)
    \/ \E path \in OpticalDevices : EjectCall(path)
    \/ \E path \in OpticalDevices : PropertiesChangedSignal(path)
    \/ \E obj \in OpticalDevices \cup JobPaths : DeviceAddedSignal(obj)
    \/ \E obj \in OpticalDevices \cup JobPaths : DeviceRemovedSignal(obj)
    \/ TimerTick
    \/ BusChanges
    \/ ServiceChanges
    \/ \E path \in OpticalDevices : DevicePlug(path)
    \/ \E path \in OpticalDevices : Unplug(path)
    \/ \E path \in OpticalDevices : DeviceReportChanges(path)

DeviceSpec == DeviceInit /\ [][DeviceNext]_vars

-----------------------------------------------------------------------------
(* Observations of the handler that ran last.                              *)

Tracked == DOMAIN devices

Count(list, x) == Cardinality({i \in 1..Len(list) : list[i] = x})

\* Manager::scanDevices ran to its end in the last handler.
ScanCompleted == Contains(emitted, <<"updatedDevices">>)

Enumerated == Contains(calls, <<"getDevices">>)

Constructed(path) == \E i \in 1..Len(calls) : calls[i][1] = "new" /\ calls[i][2] = path

Deleted(path) == \E i \in 1..Len(calls) : calls[i][1] = "delete" /\ calls[i][2] = path

Refreshed(path) == Contains(calls, <<"properties", path>>)

Subscribing ==
    \E i \in 1..Len(calls) :
        calls[i] \in {<<"connect", "InterfacesAdded">>, <<"connect", "InterfacesRemoved">>}

ErrorEmitted == \E i \in 1..Len(emitted) : emitted[i][1] = "deviceErrorMessage"

\* A change signal of the last handler, of a Device or re-emitted by the
\* Manager, carries path.
ChangeSignalFor(path) ==
    \/ \E i \in 1..Len(signals) : signals[i][2] = path
    \/ \E i \in 1..Len(emitted) :
          /\ emitted[i][1] \in {"mediaChanged", "mountpointChanged"}
          /\ emitted[i][2] = path

Reconciling == op.name \in {"Manager", "deviceAdded", "deviceRemoved", "checkUDisks"}

JobNotification ==
    /\ op.name \in {"deviceAdded", "deviceRemoved"}
    /\ StartsWith(op.path, JobsPrefix)

\* The presence handle exists and reports the service as reachable.
HandleValid == dbus # "NULL" /\ IsValid

-----------------------------------------------------------------------------
(* Claims                                                                  *)

\* C1: whenever a reconciliation (Manager::scanDevices) completes, the paths
\* tracked in the registry are exactly the paths of the enumeration it read.
C1_TrackedEqualsEnumeration == ScanCompleted => Tracked = present

\* C2: a path that is tracked and still enumerated keeps its Device: no handler
\* constructs a second Device for it or deletes it, and a reconciliation leaves
\* the Device as it was, without refreshing it and without any signal for it;
\* running scanDevices again on the same enumeration changes nothing.
C2_TrackedDeviceRetained ==
    /\ \A p \in (DOMAIN pre) \cap present :
          /\ p \in Tracked
          /\ devices[p].id = pre[p].id
          /\ ~Constructed(p)
          /\ ~Deleted(p)
          /\ Reconciling => /\ devices[p] = pre[p]
                            /\ ~Refreshed(p)
                            /\ ~ChangeSignalFor(p)
    /\ ScanCompleted => ScanDevices(Entry).devices = devices

\* A reconciliation has constructed a Device for one path while another path,
\* tracked before and still enumerated, holds attributes the service no
\* longer reports: a refresh of it would have been visible.
C2_Witness ==
    /\ ScanCompleted
    /\ IsValid
    /\ \E p \in (DOMAIN pre) \cap present :
          /\ devices[p].mountpoint # svc[p].mountpoint
          /\ \E q \in Tracked \ DOMAIN pre : Constructed(q)

\* C3: if the bus becomes connected and stays connected, the timer ticks
\* eventually re-run the connection step: the add/remove signals are
\* connected and the presence handle exists.
C3_ConnectionRetried ==
    (<>[]busConnected) => <>(subscribed /\ dbus # "NULL")

\* C4 as claimed: every device-removed notification outside the jobs namespace
\* ends with a full enumeration and exactly one updatedDevices.
C4_RemovedAlwaysRescans ==
    (op.name = "deviceRemoved" /\ ~StartsWith(op.path, JobsPrefix))
        => /\ Enumerated
           /\ Count(emitted, <<"updatedDevices">>) = 1

\* C4 amended: a device-removed notification outside the jobs namespace,
\* handled while the presence handle is valid, ends with a full enumeration and
\* exactly one updatedDevices, unless the path is tracked and still enumerated;
\* then, and when the handle is not valid, the handler emits nothing and
\* leaves the registry as it was.
C4_RemovedRescans ==
    (op.name = "deviceRemoved" /\ ~StartsWith(op.path, JobsPrefix))
        => IF HandleValid /\ ~(op.path \in DOMAIN pre /\ op.path \in present)
           THEN /\ Enumerated
                /\ Count(emitted, <<"updatedDevices">>) = 1
                /\ emitted[Len(emitted)] = <<"updatedDevices">>
                /\ present \subseteq Tracked
           ELSE /\ emitted = <<>>
                /\ devices = pre

\* A removal of a tracked path that is gone has been handled, and the
\* enumeration that ended the handler has picked up another device.
C4_Witness ==
    /\ op.name = "deviceRemoved"
    /\ HandleValid
    /\ op.path \in DOMAIN pre
    /\ op.path \notin present
    /\ \E q \in Tracked \ DOMAIN pre : Constructed(q)

\* C5 as claimed: a device-removed notification for a tracked path that is no
\* longer enumerated removes the path and destroys its Device, emits
\* updatedDevices and no error, and keeps every other tracked, enumerated path.
C5_RemovedDeletesAlways ==
    (op.name = "deviceRemoved" /\ op.path \in DOMAIN pre /\ op.path \notin present)
        => /\ op.path \notin Tracked
           /\ Deleted(op.path)
           /\ ScanCompleted
           /\ ~ErrorEmitted
           /\ \A q \in (DOMAIN pre) \cap present : q \in Tracked /\ devices[q] = pre[q]

\* C5 amended: the same, for a notification handled while the presence handle
\* is valid.
C5_RemovedDeletes ==
    (op.name = "deviceRemoved" /\ op.path \in DOMAIN pre /\ op.path \notin present
       /\ HandleValid)
        => /\ op.path \notin Tracked
           /\ Deleted(op.path)
           /\ ScanCompleted
           /\ ~ErrorEmitted
           /\ \A q \in (DOMAIN pre) \cap present : q \in Tracked /\ devices[q] = pre[q]

\* A tracked path that is gone has been removed while another tracked path,
\* still enumerated, stayed.
C5_Witness ==
    /\ op.name = "deviceRemoved"
    /\ HandleValid
    /\ op.path \in DOMAIN pre
    /\ op.path \notin present
    /\ (DOMAIN pre) \cap present # {}

\* C6: a device-removed notification for a path that is not tracked but is
\* enumerated deletes no registry entry and emits no error.
C6_UntrackedRemovalDeletesNothing ==
    (op.name = "deviceRemoved" /\ op.path \notin DOMAIN pre /\ op.path \in present)
        => /\ \A q \in DOMAIN pre : q \in Tracked /\ devices[q].id = pre[q].id
           /\ \A q \in DevicePaths : ~Deleted(q)
           /\ ~ErrorEmitted

\* The notification was handled with a valid handle and a non-empty registry.
C6_Witness ==
    /\ op.name = "deviceRemoved"
    /\ HandleValid
    /\ op.path \notin DOMAIN pre
    /\ op.path \in present
    /\ DOMAIN pre # {}
    /\ ScanCompleted

\* C7 as claimed: every device-added notification outside the jobs namespace
\* enumerates, constructs a Device for every enumerated path not yet tracked,
\* emits updatedDevices and then foundNewDevice with the notified path.
C7_AddedAlwaysRescans ==
    (op.name = "deviceAdded" /\ ~StartsWith(op.path, JobsPrefix))
        => /\ Enumerated
           /\ \A p \in present \ DOMAIN pre : p \in Tracked /\ Constructed(p)
           /\ emitted = << <<"updatedDevices">>, <<"foundNewDevice", op.path>> >>

\* C7 amended: the same, for a notification handled while the presence handle
\* is valid; with an invalid handle the handler does nothing.
C7_AddedRescans ==
    (op.name = "deviceAdded" /\ ~StartsWith(op.path, JobsPrefix))
        => IF HandleValid
           THEN /\ Enumerated
                /\ \A p \in present \ DOMAIN pre : p \in Tracked /\ Constructed(p)
                /\ emitted = << <<"updatedDevices">>, <<"foundNewDevice", op.path>> >>
           ELSE /\ emitted = <<>>
                /\ calls = <<>>
                /\ devices = pre

\* A notification for one path was handled and the enumeration constructed
\* the Device of that path and of another one.
C7_Witness ==
    /\ op.name = "deviceAdded"
    /\ HandleValid
    /\ op.path \in Tracked \ DOMAIN pre
    /\ \E q \in Tracked \ DOMAIN pre : q # op.path /\ Constructed(q)

\* C8: a device-added or device-removed notification for a path under the
\* jobs namespace requests nothing from the adapter, leaves the registry
\* unchanged and emits nothing.
C8_JobPathsIgnored ==
    JobNotification
        => /\ calls = <<>>
           /\ emitted = <<>>
           /\ signals = <<>>
           /\ devices = pre

\* A job notification was handled with a valid handle while an enumerated
\* device was not tracked: an enumeration would have changed the registry.
C8_Witness ==
    /\ JobNotification
    /\ HandleValid
    /\ ~(present \subseteq Tracked)

\* C9: a timer tick with the bus disconnected re-runs the connection step,
\* which does nothing; with the bus connected and the presence handle not
\* valid it enumerates and emits updatedDevices without subscribing; with the
\* bus connected and the handle valid it changes nothing.
C9_HealthCheck ==
    op.name = "checkUDisks"
        => IF ~busConnected
           THEN ~crashed /\ devices = pre /\ calls = <<>> /\ emitted = <<>>
           ELSE IF ~HandleValid
           THEN ~crashed /\ Enumerated /\ ScanCompleted /\ ~Subscribing
           ELSE ~crashed /\ devices = pre /\ calls = <<>> /\ emitted = <<>>

\* The bus is connected, the service is reachable and the Manager has
\* subscribed to it.
Healthy == busConnected /\ serviceValid /\ subscribed

\* C10: while the bus and the service stay healthy, a device that is
\* enumerated and stays enumerated becomes tracked, whether or not its
\* device-added notification is delivered.
C10_MissedAddHealed ==
    \A p \in DevicePaths :
        (Healthy /\ p \in present /\ p \notin Tracked)
            ~> (p \in Tracked \/ p \notin present \/ ~Healthy)

-----------------------------------------------------------------------------
(* Observations of a Device's slots.                                       *)

DeviceSlot == op.name \in {"mount", "unmount", "eject", "handlePropertiesChanged"}

\* The requests the Devices sent to the adapter in the last handler.
DeviceRequests ==
    SelectSeq(calls, LAMBDA c : c[1] \in {"mountDevice", "unmountDevice", "ejectDevice",
                                          "properties"})

EjectRequests == SelectSeq(calls, LAMBDA c : c[1] = "ejectDevice")

Refreshes(path) == Count(calls, <<"properties", path>>)

\* The Device signals of the last handler, by kind.
Errors == SelectSeq(signals, LAMBDA sig : sig[1] = "errorMessage")

Changes == SelectSeq(signals, LAMBDA sig : sig[1] # "errorMessage")

\* The attributes a Device caches.
Cached(dev) ==
    [drive |-> dev.drive, name |-> dev.name, isRemovable |-> dev.isRemovable,
     mountpoint |-> dev.mountpoint, filesystem |-> dev.filesystem,
     isOptical |-> dev.isOptical, hasMedia |-> dev.hasMedia,
     opticalDataTracks |-> dev.opticalDataTracks,
     opticalAudioTracks |-> dev.opticalAudioTracks,
     isBlankDisc |-> dev.isBlankDisc, hasPartition |-> dev.hasPartition]

\* The last handler did nothing that can be observed.
Silent ==
    /\ calls = <<>>
    /\ signals = <<>>
    /\ emitted = <<>>
    /\ op.input = <<>>
    /\ devices = pre

\* C11: Device::mount on a Device whose cached mount point is not empty does
\* nothing: no request to the adapter, no refresh, no event.
C11_MountOnMountedIsNoOp ==
    (op.name = "mount" /\ pre[op.path].mountpoint # "") => Silent

\* mount was called on a mounted Device while the service was reachable and
\* reported other attributes than the cached ones.
C11_Witness ==
    /\ op.name = "mount"
    /\ pre[op.path].mountpoint # ""
    /\ IsValid
    /\ svc[op.path] # Cached(pre[op.path])
    /\ svc[op.path].mountpoint = ""

\* C12: Device::mount with a valid interface and an empty cached mount point
\* sends one mount request. A non-empty reply gives exactly one Error(path,
\* reply), no refresh, unchanged attributes and no mountpoint-changed. An empty
\* reply gives no Error and one refresh, and mountpoint-changed(path, new) is
\* emitted exactly when the refreshed mount point is not the cached one.
C12_MountOutcome ==
    (op.name = "mount" /\ IsValid /\ pre[op.path].mountpoint = "") =>
        LET p == op.path
            ans == op.input[1]
        IN  /\ Len(op.input) = 1
            /\ calls[1] = <<"mountDevice", p>>
            /\ IF ans.reply # ""
               THEN /\ signals = << <<"errorMessage", p, ans.reply>> >>
                    /\ Refreshes(p) = 0
                    /\ devices = pre
               ELSE /\ Errors = <<>>
                    /\ Refreshes(p) = 1
                    /\ Cached(devices[p]) = ans.after
                    /\ Count(signals, <<"mountpointChanged", p, ans.after.mountpoint>>)
                         = IF ans.after.mountpoint # pre[p].mountpoint THEN 1 ELSE 0
                    /\ \A i \in 1..Len(signals) :
                          signals[i][1] = "mountpointChanged"
                             => signals[i] = <<"mountpointChanged", p, ans.after.mountpoint>>

\* A mount request failed although the service reports the device mounted.
C12_Witness ==
    /\ op.name = "mount"
    /\ IsValid
    /\ pre[op.path].mountpoint = ""
    /\ op.input[1].reply # ""
    /\ op.input[1].after.mountpoint # ""

\* C13: Device::unmount with a valid interface on a mounted Device requests an
\* eject exactly once if the unmount succeeded (empty reply and empty refreshed
\* mount point) and the refreshed Device is optical, and never otherwise.
C13_EjectAfterUnmount ==
    (op.name = "unmount" /\ IsValid /\ pre[op.path].mountpoint # "") =>
        LET ans == op.input[1]
            \* the refresh of unmount reads the report the request left
            succeeded == ans.reply = "" /\ ans.after.mountpoint = ""
        IN  Len(EjectRequests) = IF succeeded /\ ans.after.isOptical THEN 1 ELSE 0

\* An optical Device was unmounted and ejected.
C13_Witness ==
    /\ op.name = "unmount"
    /\ IsValid
    /\ pre[op.path].mountpoint # ""
    /\ pre[op.path].isOptical
    /\ EjectRequests = << <<"ejectDevice", pre[op.path].drive>> >>

\* C14: Device::unmount with a valid interface on a mounted Device refreshes
\* after the unmount request whatever the reply. An empty reply with a mount
\* point still set gives exactly one Error with the message made of "Failed to
\* umount" and the device name; a non-empty reply gives exactly one Error with
\* that reply; on success unmount itself emits no Error.
C14_UnmountOutcome ==
    (op.name = "unmount" /\ IsValid /\ pre[op.path].mountpoint # "") =>
        LET p == op.path
            ans == op.input[1]
            ejectErrors ==
                IF Len(op.input) > 1 /\ op.input[2].reply # ""
                THEN << <<"errorMessage", p, op.input[2].reply>> >>
                ELSE <<>>
        IN  /\ calls[1] = <<"unmountDevice", p>>
            /\ calls[2] = <<"properties", p>>
            /\ IF ans.reply # ""
               THEN Errors = << <<"errorMessage", p, ans.reply>> >>
               ELSE IF ans.after.mountpoint # ""
               THEN Errors = << <<"errorMessage", p,
                                  <<"Failed to umount", ans.after.name>> >> >>
               ELSE Errors = ejectErrors

\* The unmount request returned no error but the device stayed mounted, under
\* another name than the cached one.
C14_Witness ==
    /\ op.name = "unmount"
    /\ IsValid
    /\ pre[op.path].mountpoint # ""
    /\ op.input[1].reply = ""
    /\ devices[op.path].mountpoint # ""
    /\ devices[op.path].name # pre[op.path].name

\* The change signals the last handler's Devices emitted for path.
ChangesOf(path) == SelectSeq(Changes, LAMBDA sig : sig[2] = path)

\* The Device the last handler's refresh of path started from: the cached
\* one, or the freshly initialised one when the handler constructed it.
BeforeRefresh(path) ==
    IF path \in DOMAIN pre /\ ~Constructed(path) THEN pre[path]
    ELSE InitialDevice(path, devices[path].id)

\* C15: a refresh with a valid interface emits media-changed, mountpoint-changed
\* and name-changed, each with the new value, exactly for those of the three
\* values that differ from the cached ones; a change of any other attribute
\* emits nothing, and a refresh that changes nothing emits nothing.
C15_RefreshEvents ==
    \A p \in DOMAIN devices :
        (IsValid /\ Refreshes(p) = 1) =>
            LET old == BeforeRefresh(p)
                new == devices[p]
                media == Count(ChangesOf(p), <<"mediaChanged", p, new.hasMedia>>)
                mount == Count(ChangesOf(p), <<"mountpointChanged", p, new.mountpoint>>)
                name == Count(ChangesOf(p), <<"nameChanged", p, new.name>>)
            IN  /\ Cached(new) = svc[p]
                /\ media = IF new.hasMedia # old.hasMedia THEN 1 ELSE 0
                /\ mount = IF new.mountpoint # old.mountpoint THEN 1 ELSE 0
                /\ name = IF new.name # old.name THEN 1 ELSE 0
                /\ Len(ChangesOf(p)) = media + mount + name

\* A property-change notification found another name and other attributes
\* without events, but the same mount point and media flag.
C15_Witness ==
    /\ op.name = "handlePropertiesChanged"
    /\ IsValid
    /\ op.path \in DOMAIN pre
    /\ Refreshes(op.path) = 1
    /\ devices[op.path].name # pre[op.path].name
    /\ devices[op.path].filesystem # pre[op.path].filesystem
    /\ devices[op.path].isOptical # pre[op.path].isOptical
    /\ devices[op.path].mountpoint = pre[op.path].mountpoint
    /\ devices[op.path].hasMedia = pre[op.path].hasMedia

\* C16: while the service interface is invalid, mount, unmount, eject and a
\* property-change notification do nothing (no request to the adapter, no event,
\* attributes unchanged), and a Device constructed then is not refreshed and
\* keeps the default attributes.
C16_InvalidInterfaceIsSilent ==
    ~IsValid =>
        /\ DeviceSlot => Silent
        /\ DeviceRequests = <<>>
        /\ signals = <<>>
        /\ \A p \in DOMAIN devices :
              Constructed(p) =>
                  /\ Refreshes(p) = 0
                  /\ devices[p] = [InitialDevice(p, devices[p].id) EXCEPT !.connected = TRUE]

\* eject was called while the interface was invalid, on a Device whose cached
\* attributes are not what the service would report.
C16_Witness ==
    /\ op.name = "eject"
    /\ ~IsValid
    /\ op.path \in DOMAIN devices
    /\ svc[op.path] # Cached(devices[op.path])
    /\ devices[op.path].mountpoint # ""

\* What the Manager's three forwarding slots emit for a Device signal.
Reemitted(sig) ==
    CASE sig[1] = "mediaChanged" -> << <<"mediaChanged", sig[2], sig[3]>> >>
      [] sig[1] = "mountpointChanged" -> << <<"mountpointChanged", sig[2], sig[3]>> >>
      [] sig[1] = "errorMessage" -> << <<"deviceErrorMessage", sig[2], sig[3]>> >>
      [] OTHER -> <<>>

RECURSIVE ReemittedAll(_)
ReemittedAll(sigs) ==
    IF sigs = <<>> THEN <<>> ELSE Reemitted(Head(sigs)) \o ReemittedAll(Tail(sigs))

\* C17: the Manager re-emits each media-changed, mountpoint-changed and error
\* signal of a tracked Device exactly once, with the same payload and in the
\* same order, never re-emits name-changed, and emits none of the three on its
\* own.
C17_Forwarding ==
    /\ DeviceSlot => emitted = ReemittedAll(signals)
    /\ \A i \in 1..Len(emitted) :
          emitted[i][1] \in {"mediaChanged", "mountpointChanged", "deviceErrorMessage"}
             => DeviceSlot

\* One slot of a Device emitted a media change, a name change and an error.
C17_Witness ==
    /\ DeviceSlot
    /\ \E i \in 1..Len(signals) : signals[i][1] = "mediaChanged"
    /\ \E i \in 1..Len(signals) : signals[i][1] = "nameChanged"
    /\ \E i \in 1..Len(signals) : signals[i][1] = "errorMessage"
    /\ Len(emitted) = 2

\* The last handler evaluated dbus->isValid(): deviceAdded and deviceRemoved
\* do so first of all, checkUDisks once it has found the bus connected.
TestsHandle ==
    \/ op.name \in {"deviceAdded", "deviceRemoved"}
    \/ op.name = "checkUDisks" /\ busConnected

\* C18: whenever checkUDisks, deviceAdded or deviceRemoved tests the presence
\* handle, the handle has been created; in particular on a tick that finds the
\* bus connected after a construction with the bus disconnected.
C18_HandleCreatedWhenTested == TestsHandle => dbus # "NULL"

\* C19: the change signals of a new Device's construction-time refresh are not
\* forwarded: a reconciliation that constructs a Device for a path emits no
\* media-changed and no mountpoint-changed for that path, only updated-devices
\* (and, in deviceAdded, the announcement that follows the reconciliation).
C19_ConstructionNotForwarded ==
    \A p \in DevicePaths :
        (Reconciling /\ Constructed(p)) =>
            /\ \A i \in 1..Len(emitted) :
                  emitted[i] \in {<<"updatedDevices">>, <<"foundNewDevice", op.path>>}
            /\ Count(emitted, <<"updatedDevices">>) = 1
            /\ emitted[1] = <<"updatedDevices">>

\* The reconciliation of a device-added notification constructed the Device of
\* the notified path, whose first refresh found media and a mount point and
\* emitted both change signals.
C19_Witness ==
    \E p \in DevicePaths :
        /\ op = [name |-> "deviceAdded", path |-> p, input |-> <<>>]
        /\ Constructed(p)
        /\ Contains(signals, <<"mediaChanged", p, TRUE>>)
        /\ Contains(signals, <<"mountpointChanged", p, devices[p].mountpoint>>)
        /\ devices[p].mountpoint # ""

\* C20: whenever foundNewDevice(p) is emitted, p is tracked at that moment and
\* was not tracked before the device-added notification that caused it.
C20_AnnouncedDeviceIsNew ==
    \A p \in AllPaths :
        Contains(emitted, <<"foundNewDevice", p>>) => (p \in Tracked /\ p \notin DOMAIN pre)

====
